---- MODULE Spec2Model ----
(***************************************************************************)
(* A model of the review pipeline of csr_service: JSON extraction and      *)
(* per-observation validation (engine/parser.py), the policy layer         *)
(* (policy/policy.py), rule retrieval (standards/retriever.py) and the     *)
(* orchestration of one review request in multi-rule and single-rule mode  *)
(* (engine/pipeline.py).                                                   *)
(*                                                                         *)
(* Conventions.  Confidences and thresholds are fixed-point numbers in     *)
(* hundredths (0.85 is 85).  A JSON value that Python would hold in a      *)
(* dynamically typed variable is a record [t, n, s] whose tag t names the  *)
(* Python type; "missing" is an absent dictionary key.  The text of a      *)
(* model reply is a sequence of atoms (whitespace, prose, a serialized     *)
(* JSON value, a fenced code block), and json.loads / the two regular      *)
(* expressions of extract_json are computed on that sequence.  The "id" of *)
(* an Observation is a random uuid4 prefix with no influence on control    *)
(* flow; it is left out of the Observation record.                         *)
(***************************************************************************)
EXTENDS Integers, Sequences, FiniteSets, TLC

min(a, b) == IF a <= b THEN a ELSE b
max(a, b) == IF a >= b THEN a ELSE b

----------------------------------------------------------------------------
(* JSON values as json.loads produces them *)

J(t, n, s) == [t |-> t, n |-> n, s |-> s]
Missing    == J("missing", 0, "")
JNull      == J("null", 0, "")
JBool(b)   == J("bool", IF b THEN 1 ELSE 0, "")
JInt(n)    == J("int", n, "")
JFloat(h)  == J("float", h, "")
\* an integer literal beyond the range of a double, e.g. 1 followed by 400
\* zeros: json.loads gives a Python int of that size
JBigInt(sign) == J("bigint", sign * 1000000, "")
JStr(s)    == J("str", 0, s)
JList      == J("list", 0, "")
JDict      == J("dict", 0, "")

SpanVal(t, items) == [t |-> t, items |-> items]
SpanMissing       == SpanVal("missing", <<>>)
SpanNull          == SpanVal("null", <<>>)
SpanList(items)   == SpanVal("list", items)

\* One entry of the "observations" array: a dict (obs_data) or something else.
Candidate(conf, sev, cat, span, ref, msg, fix, rat, exc) ==
    [kind |-> "dict", confidence |-> conf, severity |-> sev,
     category |-> cat, span |-> span, standard_ref |-> ref,
     message |-> msg, suggested_fix |-> fix,
     rationale |-> rat, standard_excerpt |-> exc]

NonDict ==
    [kind |-> "nondict", confidence |-> Missing, severity |-> Missing,
     category |-> Missing, span |-> SpanMissing, standard_ref |-> Missing,
     message |-> Missing, suggested_fix |-> Missing, rationale |-> Missing,
     standard_excerpt |-> Missing]

\* A top-level JSON value.  For an object, hasObs tells whether it has the
\* key "observations", isList whether the value under it is a list, and
\* items are the entries of that list.  For an array, items are its entries.
TopVal(t, hasObs, isList, items) ==
    [t |-> t, hasObs |-> hasObs, isList |-> isList, items |-> items]
PyNone          == TopVal("null", FALSE, FALSE, <<>>)
TBool           == TopVal("bool", FALSE, FALSE, <<>>)
TNum            == TopVal("num", FALSE, FALSE, <<>>)
TStr            == TopVal("str", FALSE, FALSE, <<>>)
TArray(items)   == TopVal("array", FALSE, FALSE, items)
TObjNoKey       == TopVal("object", FALSE, FALSE, <<>>)
TObjNotList     == TopVal("object", TRUE, FALSE, <<>>)
\* a JSON text json.loads gives up on with an exception that is not a
\* JSONDecodeError: arrays nested beyond the recursion limit ("[[[[...]]]]",
\* RecursionError) or an integer literal of more digits than the int/str
\* conversion limit (ValueError)
TDeep           == TopVal("deep", FALSE, FALSE, <<>>)
\* not a value: the call raised
Raised          == TopVal("raised", FALSE, FALSE, <<>>)
TObj(items)     == TopVal("object", TRUE, TRUE, items)

----------------------------------------------------------------------------
(* The text of a model reply *)

Atom(k, tag, val, inner) == [k |-> k, tag |-> tag, val |-> val, inner |-> inner]
Ws            == Atom("ws", "", PyNone, <<>>)      \* whitespace
Prose         == Atom("prose", "", PyNone, <<>>)   \* words, no brace, no backtick
Braced        == Atom("braced", "", PyNone, <<>>)  \* {...} that is not JSON
Json(v)       == Atom("json", "", v, <<>>)         \* a serialized JSON value
Fence(tag, inner) == Atom("fence", tag, PyNone, inner)  \* ```tag inner ```

RECURSIVE lstrip(_)
lstrip(raw) ==
    IF raw # <<>> /\ Head(raw).k = "ws" THEN lstrip(Tail(raw)) ELSE raw

RECURSIVE rstrip(_)
rstrip(raw) ==
    IF raw # <<>> /\ raw[Len(raw)].k = "ws"
    THEN rstrip(SubSeq(raw, 1, Len(raw) - 1)) ELSE raw

strip(raw) == rstrip(lstrip(raw))

\* json.loads: the text is one JSON value, whitespace around it allowed.
\* ok: a value was returned; raises: an exception other than JSONDecodeError
\* left the call (the decoder meets the value the text starts with before it
\* can complain about what follows); neither: JSONDecodeError.
json_loads(raw) ==
    LET s == strip(raw)
    IN  IF s # <<>> /\ s[1].k = "json" /\ s[1].val = TDeep
        THEN [ok |-> FALSE, raises |-> TRUE, val |-> PyNone]
        ELSE IF Len(s) = 1 /\ s[1].k = "json"
        THEN [ok |-> TRUE, raises |-> FALSE, val |-> s[1].val]
        ELSE [ok |-> FALSE, raises |-> FALSE, val |-> PyNone]

\* re.search(r"```(?:json)?\s*\n?(.*?)```"): the interior of the first fence;
\* a tag other than json stays in the captured group.
fence_match(raw) ==
    LET idx == {i \in 1..Len(raw) : raw[i].k = "fence"}
    IN  IF idx = {} THEN [found |-> FALSE, group |-> <<>>]
        ELSE LET f == raw[CHOOSE i \in idx : \A j \in idx : i <= j]
             IN  [found |-> TRUE,
                  group |-> IF f.tag \in {"json", ""} THEN f.inner
                            ELSE <<Prose>> \o f.inner]

RECURSIVE flatten(_)
flatten(raw) ==
    IF raw = <<>> THEN <<>>
    ELSE (IF Head(raw).k = "fence"
          THEN <<Prose>> \o Head(raw).inner \o <<Prose>>
          ELSE <<Head(raw)>>) \o flatten(Tail(raw))

DictItems(v) == {i \in 1..Len(v.items) : v.items[i].kind = "dict"}
HasBrace(a) ==
    \/ a.k = "braced"
    \/ a.k = "json" /\ a.val.t = "object"
    \/ a.k = "json" /\ a.val.t = "array" /\ DictItems(a.val) # {}

\* re.search(r"\{.*\}", raw, re.DOTALL) followed by json.loads of the match:
\* the text from the first "{" to the last "}".  It is a JSON value exactly
\* when both braces belong to the same serialized object.
brace_match(raw) ==
    LET flat == flatten(raw)
        idx  == {i \in 1..Len(flat) : HasBrace(flat[i])}
    IN  IF idx = {} THEN [found |-> FALSE, parsed |-> [ok |-> FALSE, val |-> PyNone]]
        ELSE LET f == CHOOSE i \in idx : \A j \in idx : i <= j
                 l == CHOOSE i \in idx : \A j \in idx : i >= j
                 a == flat[f]
             IN  [found |-> TRUE,
                  parsed |->
                    IF f # l \/ a.k = "braced" THEN [ok |-> FALSE, val |-> PyNone]
                    ELSE IF a.val.t = "object" THEN [ok |-> TRUE, val |-> a.val]
                    ELSE IF Cardinality(DictItems(a.val)) = 1
                         THEN [ok |-> TRUE, val |-> TObjNoKey]
                         ELSE [ok |-> FALSE, val |-> PyNone]]

\* extract_json returns whatever json.loads returned, of any JSON type;
\* Python's None is both "null" and "nothing could be parsed".  Only
\* JSONDecodeError is caught: any other exception of json.loads leaves
\* extract_json (Raised).
extract_json(raw) ==
    LET direct == json_loads(raw)
        fence  == fence_match(raw)
        fenced == json_loads(fence.group)
        brace  == brace_match(raw)
    IN  IF direct.raises THEN Raised
        ELSE IF direct.ok THEN direct.val
        ELSE IF fence.found /\ fenced.raises THEN Raised
        ELSE IF fence.found /\ fenced.ok THEN fenced.val
        ELSE IF brace.found /\ brace.parsed.ok THEN brace.parsed.val
        ELSE PyNone

----------------------------------------------------------------------------
(* validate_observation *)

VALID_SEVERITIES == {"info", "warning", "violation"}
VALID_CATEGORIES == {"clarity", "accuracy", "structure", "accessibility",
                     "pedagogy", "compliance", "other"}

\* isinstance(x, (int, float)); bool is a subclass of int
IsNumber(j)   == j.t \in {"int", "bigint", "float", "bool"}
\* float(x) in hundredths
AsFloat(j)    == IF j.t = "float" THEN j.n ELSE j.n * 100
\* isinstance(x, int)
IsInt(j)      == j.t \in {"int", "bigint", "bool"}
\* float(x) raises OverflowError: int too large to convert to float
FloatRaises(j) == j.t = "bigint"
\* hashable values can be looked up in a set; lists and dicts raise TypeError
Hashable(j)   == j.t \notin {"list", "dict"}
\* Python truthiness
Truthy(j) ==
    CASE j.t \in {"missing", "null"} -> FALSE
      [] j.t \in {"bool", "int", "bigint", "float"} -> j.n # 0
      [] j.t = "str" -> j.s # ""
      [] OTHER -> TRUE
\* str | None field of the pydantic model
OptStrOk(j)   == j.t \in {"missing", "null", "str"}
OptStr(j)     == IF j.t = "str" THEN j ELSE JNull

validated_confidence(obs_data) ==
    LET got == IF obs_data.confidence.t = "missing" THEN JFloat(0)
               ELSE obs_data.confidence
        c   == IF ~IsNumber(got) THEN JFloat(50) ELSE got
    IN  max(0, min(100, AsFloat(c)))

\* the value under the key after lines 70-77, "missing" when the key was
\* absent (obs_data.get's default is not stored back)
validated_enum(j, valid, fallback) ==
    IF j.t = "missing" THEN Missing
    ELSE IF j.t = "str" /\ j.s \in valid THEN j
    ELSE JStr(fallback)

span_valid(span, content_length) ==
    /\ span.t = "list"
    /\ Len(span.items) = 2
    /\ \A i \in 1..2 : IsInt(span.items[i])
    /\ ~(span.items[1].n < 0)
    /\ ~(span.items[1].n >= span.items[2].n)
    /\ ~(span.items[2].n > content_length)

\* the span of the pydantic Observation: <<>> is None; list[int] coerces bools
validated_span(span, content_length) ==
    IF span.t \in {"missing", "null"} THEN <<>>
    ELSE IF span_valid(span, content_length)
         THEN <<span.items[1].n, span.items[2].n>>
         ELSE <<>>

\* validate_observation without lines 92-95: the standard_ref is not checked
\* against known_refs
validate_observation_any_ref(obs_data, content_length, known_refs) ==
    LET ref == obs_data.standard_ref
        ok  == /\ obs_data.severity.t = "str" /\ obs_data.severity.s \in VALID_SEVERITIES
               /\ obs_data.category.t = "str" /\ obs_data.category.s \in VALID_CATEGORIES
               /\ ref.t = "str"
               /\ obs_data.message.t = "str" /\ obs_data.message.s # ""
               /\ OptStrOk(obs_data.suggested_fix)
               /\ OptStrOk(obs_data.rationale)
               /\ OptStrOk(obs_data.standard_excerpt)
    IN  IF ~ok THEN <<>>
        ELSE << [span |-> validated_span(obs_data.span, content_length),
                 severity |-> obs_data.severity.s, category |-> obs_data.category.s,
                 standard_ref |-> ref.s, message |-> obs_data.message.s,
                 suggested_fix |-> OptStr(obs_data.suggested_fix),
                 rationale |-> OptStr(obs_data.rationale),
                 standard_excerpt |-> OptStr(obs_data.standard_excerpt),
                 confidence |-> validated_confidence(obs_data)] >>

\* <<>> is None, <<obs>> an accepted Observation
validate_observation(obs_data, content_length, known_refs) ==
    LET confidence == validated_confidence(obs_data)
        severity   == validated_enum(obs_data.severity, VALID_SEVERITIES, "info")
        category   == validated_enum(obs_data.category, VALID_CATEGORIES, "other")
        span       == validated_span(obs_data.span, content_length)
        ref        == IF obs_data.standard_ref.t = "missing" THEN JStr("")
                      ELSE obs_data.standard_ref
        raises     == \/ FloatRaises(obs_data.confidence)
                      \/ ~Hashable(obs_data.severity)
                      \/ ~Hashable(obs_data.category)
                      \/ ~Hashable(ref)
        unknown    == ~(ref.t = "str" /\ ref.s \in known_refs)
        no_message == ~Truthy(obs_data.message)
        \* Observation.model_validate: required fields and field types
        invalid    == \/ severity.t = "missing"
                      \/ category.t = "missing"
                      \/ obs_data.message.t # "str"
                      \/ ~OptStrOk(obs_data.suggested_fix)
                      \/ ~OptStrOk(obs_data.rationale)
                      \/ ~OptStrOk(obs_data.standard_excerpt)
    IN  IF raises \/ unknown \/ no_message \/ invalid THEN <<>>
        ELSE << [span |-> span, severity |-> severity.s, category |-> category.s,
                 standard_ref |-> ref.s, message |-> obs_data.message.s,
                 suggested_fix |-> OptStr(obs_data.suggested_fix),
                 rationale |-> OptStr(obs_data.rationale),
                 standard_excerpt |-> OptStr(obs_data.standard_excerpt),
                 confidence |-> confidence] >>

\* the loop of parse_model_output giving up at the first entry it rejects
RECURSIVE validate_all_until_rejected(_, _, _)
validate_all_until_rejected(raw_observations, content_length, known_refs) ==
    IF raw_observations = <<>> THEN <<>>
    ELSE LET obs_data == Head(raw_observations)
             obs == IF obs_data.kind # "dict" THEN <<>>
                    ELSE validate_observation(obs_data, content_length, known_refs)
         IN  IF obs = <<>> THEN <<>>
             ELSE obs \o validate_all_until_rejected(Tail(raw_observations),
                                                     content_length, known_refs)

\* lines 120-128: the loop over the entries of the "observations" array
RECURSIVE validate_all(_, _, _)
validate_all(raw_observations, content_length, known_refs) ==
    IF raw_observations = <<>> THEN <<>>
    ELSE LET obs_data == Head(raw_observations)
             rest == validate_all(Tail(raw_observations), content_length, known_refs)
         IN  IF obs_data.kind # "dict" THEN rest
             ELSE validate_observation(obs_data, content_length, known_refs) \o rest

\* raised: data.get on a value that is not a dict (AttributeError)
parse_model_output(raw, content_length, known_refs) ==
    LET data == extract_json(raw)
    IN  IF data.t = "null" THEN [raised |-> FALSE, observations |-> <<>>]
        ELSE IF data.t # "object" THEN [raised |-> TRUE, observations |-> <<>>]
        ELSE IF ~(data.hasObs) \/ ~(data.isList)
             THEN [raised |-> FALSE, observations |-> <<>>]
        ELSE [raised |-> FALSE,
              observations |-> validate_all(data.items, content_length, known_refs)]

----------------------------------------------------------------------------
(* Policy configuration (config.py) *)

k_low            == 6
k_medium         == 10
k_high           == 14
violation_low    == 85
violation_medium == 75
violation_high   == 70
default_min_confidence   == 55
default_max_observations == 25

RetrievalConfig  == [k_low |-> k_low, k_medium |-> k_medium, k_high |-> k_high]
ThresholdsConfig == [violation_low |-> violation_low,
                     violation_medium |-> violation_medium,
                     violation_high |-> violation_high]
DefaultsConfig   == [min_confidence |-> default_min_confidence,
                     max_observations |-> default_max_observations]
PolicyConfig     == [retrieval |-> RetrievalConfig, thresholds |-> ThresholdsConfig,
                     defaults |-> DefaultsConfig]

Strictness == {"low", "medium", "high"}

k_by_strictness(retrieval) ==
    [s \in Strictness |-> CASE s = "low" -> retrieval.k_low
                            [] s = "medium" -> retrieval.k_medium
                            [] s = "high" -> retrieval.k_high]

by_strictness(thresholds) ==
    [s \in Strictness |-> CASE s = "low" -> thresholds.violation_low
                            [] s = "medium" -> thresholds.violation_medium
                            [] s = "high" -> thresholds.violation_high]

\* Loading the policy configuration.  A setting is a pair <<section, key>>.
\* The parsed policy.yaml and the environment are functions from the
\* settings to a value or Unset (key not in the file, variable
\* CSR_POLICY_<SECTION>_<KEY> not set).  A value is a record [kind, n]:
\* kind is the Python type of the YAML scalar ("int", "float"), respectively
\* the form of the numeral in the environment string, n the number in the
\* unit of the setting (hundredths for thresholds and confidences).
PolicySettings ==
    {<<"retrieval", "k_low">>, <<"retrieval", "k_medium">>, <<"retrieval", "k_high">>,
     <<"thresholds", "violation_low">>, <<"thresholds", "violation_medium">>,
     <<"thresholds", "violation_high">>,
     <<"defaults", "min_confidence">>, <<"defaults", "max_observations">>}

Unset == [kind |-> "unset", n |-> 0]
Num(kind, n) == [kind |-> kind, n |-> n]

\* lines 127-134: int(env_val) where the YAML value is an int, float(env_val)
\* where it is a float; int() of a numeral with a decimal point is a
\* ValueError
coerce(existing, env_val) ==
    IF existing.kind = "int"
    THEN (IF env_val.kind = "int" THEN Num("int", env_val.n)
          ELSE [kind |-> "ValueError", n |-> 0])
    ELSE Num("float", env_val.n)

\* lines 118-135: only the keys the YAML data holds are looked up in the
\* environment
apply_env_overrides(data, environ) ==
    [st \in PolicySettings |->
        IF data[st] # Unset /\ environ[st] # Unset
        THEN coerce(data[st], environ[st])
        ELSE data[st]]

\* PolicyConfig.model_validate: a key the data lacks gets the default of
\* lines 23-51
model_validate(data) ==
    LET get(section, key) ==
            IF data[<<section, key>>] = Unset THEN PolicyConfig[section][key]
            ELSE data[<<section, key>>].n
    IN  [retrieval |-> [k_low |-> get("retrieval", "k_low"),
                        k_medium |-> get("retrieval", "k_medium"),
                        k_high |-> get("retrieval", "k_high")],
         thresholds |-> [violation_low |-> get("thresholds", "violation_low"),
                         violation_medium |-> get("thresholds", "violation_medium"),
                         violation_high |-> get("thresholds", "violation_high")],
         defaults |-> [min_confidence |-> get("defaults", "min_confidence"),
                       max_observations |-> get("defaults", "max_observations")]]

\* lines 150-160; raised: the ValueError of a coercion leaves the call
load_policy_config(data, environ) ==
    LET overridden == apply_env_overrides(data, environ)
    IN  [raised |-> \E st \in PolicySettings : overridden[st].kind = "ValueError",
         config |-> model_validate(overridden)]

----------------------------------------------------------------------------
(* The policy layer (policy/policy.py).  Every operator takes the loaded   *)
(* policy configuration as its last argument where the code reads the      *)
(* module global policy_config.                                            *)

SEVERITY_ORDER(severity) ==
    CASE severity = "violation" -> 0
      [] severity = "warning" -> 1
      [] severity = "info" -> 2
      [] OTHER -> 2

\* "none" stands for Python's None
SEVERITY_DOWNGRADE(severity) ==
    CASE severity = "violation" -> "warning"
      [] severity = "warning" -> "info"
      [] OTHER -> "none"

\* the gate with `>` for `>=`: an observation exactly at min_confidence fails
RECURSIVE confidence_gate_exclusive(_, _)
confidence_gate_exclusive(observations, min_confidence) ==
    IF observations = <<>> THEN <<>>
    ELSE LET obs == Head(observations)
             rest == confidence_gate_exclusive(Tail(observations), min_confidence)
             new_severity == SEVERITY_DOWNGRADE(obs.severity)
         IN  IF obs.confidence > min_confidence THEN <<obs>> \o rest
             ELSE IF new_severity = "none" THEN rest
             ELSE <<[obs EXCEPT !.severity = new_severity]>> \o rest

RECURSIVE confidence_gate(_, _)
confidence_gate(observations, min_confidence) ==
    IF observations = <<>> THEN <<>>
    ELSE LET obs == Head(observations)
             rest == confidence_gate(Tail(observations), min_confidence)
             new_severity == SEVERITY_DOWNGRADE(obs.severity)
         IN  IF obs.confidence >= min_confidence THEN <<obs>> \o rest
             ELSE IF new_severity = "none" THEN rest
             ELSE <<[obs EXCEPT !.severity = new_severity]>> \o rest

\* the bias with `<=` for `<`: a violation exactly at the threshold is lowered
strictness_bias_inclusive(observations, strictness, config) ==
    LET threshold == by_strictness(config.thresholds)[strictness]
    IN  [i \in 1..Len(observations) |->
            IF observations[i].severity = "violation"
               /\ observations[i].confidence <= threshold
            THEN [observations[i] EXCEPT !.severity = "warning"]
            ELSE observations[i]]

\* the bias lowering whatever severity it finds below the threshold
strictness_bias_any_severity(observations, strictness, config) ==
    LET threshold == by_strictness(config.thresholds)[strictness]
    IN  [i \in 1..Len(observations) |->
            IF SEVERITY_DOWNGRADE(observations[i].severity) # "none"
               /\ observations[i].confidence < threshold
            THEN [observations[i] EXCEPT !.severity = SEVERITY_DOWNGRADE(@)]
            ELSE observations[i]]

strictness_bias(observations, strictness, config) ==
    LET threshold == by_strictness(config.thresholds)[strictness]
    IN  [i \in 1..Len(observations) |->
            IF observations[i].severity = "violation"
               /\ observations[i].confidence < threshold
            THEN [observations[i] EXCEPT !.severity = "warning"]
            ELSE observations[i]]

\* the key of the dict `seen`: (tuple(span) or None, standard_ref)
dedup_key(obs) == <<obs.span, obs.standard_ref>>

\* the loop with `>=` for `>`: on equal confidence the later observation wins
RECURSIVE dedup_loop_last_wins(_, _)
dedup_loop_last_wins(observations, seen) ==
    IF observations = <<>> THEN seen
    ELSE LET obs == Head(observations)
             at  == {i \in 1..Len(seen) : dedup_key(seen[i]) = dedup_key(obs)}
         IN  IF at = {} THEN dedup_loop_last_wins(Tail(observations), Append(seen, obs))
             ELSE LET i == CHOOSE j \in at : TRUE
                  IN  IF obs.confidence >= seen[i].confidence
                      THEN dedup_loop_last_wins(Tail(observations), [seen EXCEPT ![i] = obs])
                      ELSE dedup_loop_last_wins(Tail(observations), seen)

\* `seen` is the dict's values in insertion order: assigning to a key that
\* exists keeps its position
RECURSIVE dedup_loop(_, _)
dedup_loop(observations, seen) ==
    IF observations = <<>> THEN seen
    ELSE LET obs == Head(observations)
             at  == {i \in 1..Len(seen) : dedup_key(seen[i]) = dedup_key(obs)}
         IN  IF at = {} THEN dedup_loop(Tail(observations), Append(seen, obs))
             ELSE LET i == CHOOSE j \in at : TRUE
                  IN  IF obs.confidence > seen[i].confidence
                      THEN dedup_loop(Tail(observations), [seen EXCEPT ![i] = obs])
                      ELSE dedup_loop(Tail(observations), seen)

deduplicate(observations) == dedup_loop(observations, <<>>)

\* the sort key (SEVERITY_ORDER, -confidence), compared as a tuple
sort_key_le(a, b) ==
    \/ SEVERITY_ORDER(a.severity) < SEVERITY_ORDER(b.severity)
    \/ /\ SEVERITY_ORDER(a.severity) = SEVERITY_ORDER(b.severity)
       /\ -a.confidence <= -b.confidence

\* an unstable sort: an element goes before the elements equal to it
RECURSIVE sorted_insert_before_equal(_, _)
sorted_insert_before_equal(sorted, obs) ==
    IF sorted = <<>> THEN <<obs>>
    ELSE IF sort_key_le(Head(sorted), obs) /\ ~sort_key_le(obs, Head(sorted))
         THEN <<Head(sorted)>> \o sorted_insert_before_equal(Tail(sorted), obs)
         ELSE <<obs>> \o sorted

\* sorted() is stable: an element goes after everything not greater than it
RECURSIVE sorted_insert(_, _)
sorted_insert(sorted, obs) ==
    IF sorted = <<>> THEN <<obs>>
    ELSE IF sort_key_le(Head(sorted), obs)
         THEN <<Head(sorted)>> \o sorted_insert(Tail(sorted), obs)
         ELSE <<obs>> \o sorted

RECURSIVE sort_observations(_)
sort_observations(observations) ==
    IF observations = <<>> THEN <<>>
    ELSE sorted_insert(
             sort_observations(SubSeq(observations, 1, Len(observations) - 1)),
             observations[Len(observations)])

\* the pipeline with the truncation ahead of the sort
apply_policy_truncate_first(observations, strictness, min_confidence, max_observations, config) ==
    LET gated   == confidence_gate(observations, min_confidence)
        biased  == strictness_bias(gated, strictness, config)
        deduped == deduplicate(biased)
    IN  sort_observations(SubSeq(deduped, 1, min(max_observations, Len(deduped))))

apply_policy(observations, strictness, min_confidence, max_observations, config) ==
    LET gated   == confidence_gate(observations, min_confidence)
        biased  == strictness_bias(gated, strictness, config)
        deduped == deduplicate(biased)
        sorted  == sort_observations(deduped)
    IN  SubSeq(sorted, 1, min(max_observations, Len(sorted)))

\* policy.py:28-31: the caller's list after confidence_gate; obs.severity is
\* assigned on the object the caller still holds, a dropped object is untouched
gate_in_place(observations, min_confidence) ==
    [i \in 1..Len(observations) |->
        IF observations[i].confidence < min_confidence
           /\ SEVERITY_DOWNGRADE(observations[i].severity) # "none"
        THEN [observations[i] EXCEPT !.severity = SEVERITY_DOWNGRADE(@)]
        ELSE observations[i]]

\* the caller's list after apply_policy: the gate's survivors are the same
\* objects, and strictness_bias assigns to them too (policy.py:41-44)
apply_policy_in_place(observations, strictness, min_confidence, config) ==
    strictness_bias(gate_in_place(observations, min_confidence), strictness, config)

----------------------------------------------------------------------------
(* Retrieval (standards/retriever.py).  A rule is represented by its       *)
(* standard_ref; scores[i] is the cosine similarity of rule i to the       *)
(* content, as an integer weight.                                          *)

\* np.argsort(scores): the indices in ascending order of score.  The default
\* kind ("quicksort") is not a stable sort: the order of the indices of equal
\* scores depends on the numpy build (insertion sort on short arrays in the
\* generic code path, sorting networks in the SIMD code paths), so every
\* ascending arrangement is an outcome.
argsort(scores) ==
    {p \in Permutations(1..Len(scores)) :
        \A i \in 1..(Len(scores) - 1) : scores[p[i]] <= scores[p[i + 1]]}

reversed(seq) == [i \in 1..Len(seq) |-> seq[Len(seq) + 1 - i]]

\* sorted_indices is what np.argsort(scores) returned
retrieve(rule_refs, sorted_indices, strictness, config) ==
    LET k == min(k_by_strictness(config.retrieval)[strictness], Len(rule_refs))
        top_indices == SubSeq(reversed(sorted_indices), 1, k)
    IN  [i \in 1..k |-> rule_refs[top_indices[i]]]

----------------------------------------------------------------------------
(* Bounds and the inputs the model draws from *)

MaxRules      == 2     \* rules in a standards set
MaxContentLen == 5     \* len(request.content)
MaxTokens     == 2     \* token count reported by one invocation

\* standard_ref of the i-th rule of the standards set
RULE_REFS == <<"T-1", "T-2", "T-3", "T-4">>
RuleRefs(n) == SubSeq(RULE_REFS, 1, n)

\* Policy configurations the service may have loaded: the code defaults, and
\* a policy.yaml with a narrower retrieval breadth.
PolicyConfigs ==
    {PolicyConfig,
     [PolicyConfig EXCEPT !.retrieval = [k_low |-> 1, k_medium |-> 2, k_high |-> 3]]}

\* Contents: the length of the text and its similarity to rule i.
Content(len, kind) == [len |-> len, kind |-> kind]
Score(content, i) ==
    CASE content.kind = "none" -> 0       \* no term in common with any rule
      [] content.kind = "later" -> i      \* closer to later rules
      [] OTHER -> 0
Scores(content, n) == [i \in 1..n |-> Score(content, i)]

Options(return_rationale, return_excerpts, max_observations, min_confidence) ==
    [return_rationale |-> return_rationale, return_excerpts |-> return_excerpts,
     max_observations |-> max_observations, min_confidence |-> min_confidence]
\* standards_set names the standards set by the number of its rules
Request(content, strictness, options) ==
    [content |-> content, standards_set |-> 1, strictness |-> strictness,
     options |-> options]

Requests ==
    {Request(Content(MaxContentLen, "none"), "medium",
             Options(TRUE, TRUE, default_max_observations, default_min_confidence)),
     Request(Content(MaxContentLen, "later"), "low", Options(FALSE, FALSE, 1, 0)),
     Request(Content(2, "later"), "high", Options(TRUE, FALSE, 2, 90)),
     Request(Content(MaxContentLen, "none"), "medium", Options(FALSE, TRUE, 1, 70))}

Usage(input_tokens, output_tokens) ==
    [input_tokens |-> input_tokens, output_tokens |-> output_tokens]
Usages == {Usage(0, 0), Usage(MaxTokens, 1)}

Exceptions == {"Model timeout", "Connection refused"}

\* Candidate observations a model reply may carry; the message names the
\* candidate
cGood1 == Candidate(JFloat(80), JStr("warning"), JStr("clarity"),
                    SpanList(<<JInt(0), JInt(3)>>), JStr("T-1"), JStr("good1"),
                    JNull, JStr("why"), JStr("quote"))
cDup1     == [cGood1 EXCEPT !.confidence = JFloat(90), !.severity = JStr("violation"),
                            !.message = JStr("dup1")]
cGood2    == [cGood1 EXCEPT !.standard_ref = JStr("T-2"), !.span = SpanNull,
                            !.message = JStr("good2")]
cTie2     == [cGood2 EXCEPT !.confidence = JFloat(90), !.severity = JStr("violation"),
                            !.message = JStr("tie2")]
cUnknown  == [cGood1 EXCEPT !.standard_ref = JStr("UNKNOWN"), !.message = JStr("unknown")]
cNoMsg    == [cGood1 EXCEPT !.message = JStr("")]
cBadType  == [cGood1 EXCEPT !.rationale = JInt(5), !.message = JStr("badtype")]
cEmptySpan == [cGood1 EXCEPT !.span = SpanList(<<JInt(3), JInt(3)>>),
                             !.message = JStr("emptyspan")]
cNegSpan  == [cGood2 EXCEPT !.span = SpanList(<<JInt(-1), JInt(2)>>),
                            !.message = JStr("negspan")]
cFloatSpan == [cGood1 EXCEPT !.span = SpanList(<<JFloat(50), JInt(2)>>),
                             !.message = JStr("floatspan")]
cShapeSpan == [cGood1 EXCEPT !.span = SpanList(<<JInt(0)>>),
                             !.message = JStr("shapespan")]
cBoolSpan == [cGood1 EXCEPT !.span = SpanList(<<JBool(FALSE), JBool(TRUE)>>),
                            !.message = JStr("boolspan")]
cLowInfo  == [cGood1 EXCEPT !.confidence = JFloat(30), !.severity = JStr("info"),
                            !.span = SpanNull, !.message = JStr("lowinfo")]
cClamp    == [cGood1 EXCEPT !.confidence = JInt(2), !.span = SpanMissing,
                            !.message = JStr("clamp")]

\* Texts the model may reply with
Replies ==
    {<<>>,                                          \* ""
     <<Ws>>,                                        \* "  \n"
     <<Prose>>,                                     \* prose, no JSON
     <<Json(PyNone)>>,                              \* null
     <<Json(TBool)>>,                               \* true
     <<Json(TNum)>>,                                \* 42
     <<Json(TStr)>>,                                \* "ok"
     <<Json(TArray(<<>>))>>,                        \* []
     <<Json(TArray(<<cGood1>>))>>,                  \* [{...}]
     <<Json(TObjNoKey)>>,                           \* {"result": "fine"}
     <<Json(TObjNotList)>>,                         \* {"observations": "none"}
     <<Json(TObj(<<>>))>>,                          \* {"observations": []}
     <<Json(TObj(<<cGood1>>))>>,
     <<Json(TObj(<<cGood1, cDup1>>))>>,
     <<Json(TObj(<<cGood1, cUnknown>>))>>,
     <<Json(TObj(<<cNoMsg, NonDict, cGood2, cBadType>>))>>,
     <<Json(TObj(<<cTie2, cEmptySpan>>))>>,
     <<Json(TObj(<<cNegSpan, cFloatSpan, cShapeSpan>>))>>,
     <<Json(TObj(<<cBoolSpan>>))>>,
     <<Json(TObj(<<cLowInfo, cClamp>>))>>,
     <<Prose, Fence("json", <<Json(TObj(<<cDup1>>))>>)>>,
     <<Prose, Json(TObj(<<cGood2>>)), Prose>>,
     <<Json(TObj(<<>>)), Prose, Json(TObjNoKey)>>}

\* response.usage is optional: a backend that leaves it out gives Usage().
\* The pipeline does nothing with the usage but add it up, so the omission is
\* explored with the replies of Unmetered and the token counts with every
\* reply.
Unmetered == {<<>>, <<Json(TObj(<<cGood1>>))>>, <<Json(TNum)>>}
UsagesOf(raw) == IF raw \in Unmetered THEN Usages ELSE {Usage(MaxTokens, 1)}

----------------------------------------------------------------------------
(* The review pipeline (engine/pipeline.py) *)

VARIABLES
    settings,       \* settings.single_rule_mode, settings.single_rule_parallel
    policy_config,  \* the module global loaded by load_policy_config
    request,        \* the ReviewRequest being served
    rules,          \* the standard_refs of retriever.retrieve(...), in order
    pc,             \* "idle", "awaiting" (suspended on the model), "done", "raised"
    invocations,    \* the calls of model_client.generate issued so far
    completed,      \* indices of invocations, in the order they completed
    observations,   \* the list handed to apply_policy (pre-policy)
    ran,            \* the stages of run_review executed so far
    response        \* the ReviewResponse returned to the caller

vars == <<settings, policy_config, request, rules, pc, invocations, completed,
          observations, ran, response>>

Error(code, ref, text) == [code |-> code, ref |-> ref, text |-> text]
NoError == Error("", "", "")
\* f"{rule.standard_ref}: {e}" is Error(code, ref, e); str(e) has ref ""

Invocation(known_refs) ==
    [known_refs |-> known_refs, status |-> "awaiting", raw |-> <<>>,
     usage |-> Usage(0, 0), observations |-> <<>>, error |-> NoError]

NoRequest  == Request(Content(0, "none"), "medium",
                      Options(TRUE, TRUE, default_max_observations, default_min_confidence))
NoResponse == [returned |-> FALSE, observations |-> <<>>,
               meta |-> [strictness |-> "medium", usage |-> Usage(0, 0)],
               errors |-> <<>>]

ReviewResponse(obs, strictness, usage, errors) ==
    [returned |-> TRUE, observations |-> obs,
     meta |-> [strictness |-> strictness, usage |-> usage], errors |-> errors]

Range(seq) == {seq[i] : i \in 1..Len(seq)}

Init ==
    /\ settings \in [single_rule_mode : BOOLEAN, single_rule_parallel : BOOLEAN]
    /\ policy_config \in PolicyConfigs
    /\ request = NoRequest
    /\ rules = <<>>
    /\ pc = "idle"
    /\ invocations = <<>>
    /\ completed = <<>>
    /\ observations = <<>>
    /\ ran = {}
    /\ response = NoResponse

\* run_review up to its first await: retrieval, prompt building and the
\* model calls issued before the coroutine suspends.  Multi-rule mode issues
\* one call carrying every retrieved rule; asyncio.gather starts one call per
\* rule; the sequential loop starts with the first rule.
Start(req, n) ==
    /\ pc = "idle"
    /\ \E sorted_indices \in argsort(Scores(req.content, n)) :
       LET retrieved == retrieve(RuleRefs(n), sorted_indices,
                                 req.strictness, policy_config)
       IN  /\ rules' = retrieved
           /\ invocations' =
                IF ~settings.single_rule_mode
                THEN <<Invocation(Range(retrieved))>>
                ELSE IF settings.single_rule_parallel
                THEN [i \in 1..Len(retrieved) |-> Invocation({retrieved[i]})]
                ELSE <<Invocation({retrieved[1]})>>
    /\ request' = [req EXCEPT !.standards_set = n]
    /\ pc' = "awaiting"
    /\ ran' = {"retrieve", "prompt", "generate"}
    /\ UNCHANGED <<settings, policy_config, completed, observations, response>>

\* both fields stripped on the return_rationale flag alone
strip_fields_one_flag(obs, options) ==
    [i \in 1..Len(obs) |->
        [obs[i] EXCEPT
            !.rationale = IF options.return_rationale THEN @ ELSE JNull,
            !.standard_excerpt = IF options.return_rationale THEN @ ELSE JNull]]

\* lines 163-169: strip rationale / excerpts the request did not ask for
strip_fields(obs, options) ==
    [i \in 1..Len(obs) |->
        [obs[i] EXCEPT
            !.rationale = IF options.return_rationale THEN @ ELSE JNull,
            !.standard_excerpt = IF options.return_excerpts THEN @ ELSE JNull]]

\* lines 155-192: policy, stripping and the response
assemble(obs, usage, errors, req, config) ==
    ReviewResponse(
        strip_fields(apply_policy(obs, req.strictness, req.options.min_confidence,
                                  req.options.max_observations, config),
                     req.options),
        req.strictness, usage, errors)

\* the parse-failure signal without the test for the "observations" key
parse_failure_errors_no_key_test(obs, raw) ==
    IF obs = <<>> /\ strip(raw) # <<>>
    THEN <<Error("MODEL_PARSE_FAILURE", "", "no valid observations")>>
    ELSE <<>>

\* the parse-failure signal without the test for an empty observation list
parse_failure_errors_with_observations(obs, raw) ==
    LET parsed == extract_json(raw)
    IN  IF strip(raw) # <<>> /\ (obs # <<>> \/ parsed.t = "null" \/ ~parsed.hasObs)
        THEN <<Error("MODEL_PARSE_FAILURE", "", "no valid observations")>>
        ELSE <<>>

\* lines 145-153: the parse-failure signal of multi-rule mode
parse_failure_errors(obs, raw) ==
    LET parsed == extract_json(raw)
    IN  IF obs = <<>> /\ strip(raw) # <<>>
           /\ (parsed.t = "null" \/ ~parsed.hasObs)
        THEN <<Error("MODEL_PARSE_FAILURE", "", "no valid observations")>>
        ELSE <<>>

MultiReturns(raw, usage) ==
    /\ pc = "awaiting" /\ ~settings.single_rule_mode
    /\ LET parsed == parse_model_output(raw, request.content.len,
                                        invocations[1].known_refs)
       IN  /\ invocations' = [invocations EXCEPT
                  ![1].status = IF parsed.raised THEN "raised" ELSE "returned",
                  ![1].raw = raw, ![1].usage = usage,
                  ![1].observations = parsed.observations]
           /\ completed' = Append(completed, 1)
           /\ IF parsed.raised
              THEN /\ pc' = "raised"
                   /\ ran' = ran \cup {"parse"}
                   /\ UNCHANGED <<observations, response>>
              ELSE /\ pc' = "done"
                   /\ ran' = ran \cup {"parse", "policy"}
                   /\ observations' = parsed.observations
                   /\ response' = assemble(parsed.observations, usage,
                                    parse_failure_errors(parsed.observations, raw),
                                    request, policy_config)
    /\ UNCHANGED <<settings, policy_config, request, rules>>

\* the early return with the error swallowed
failure_response_no_error(req, e) ==
    ReviewResponse(<<>>, req.strictness, Usage(0, 0), <<>>)

\* lines 129-141: the response of the early return
failure_response(req, e) ==
    ReviewResponse(<<>>, req.strictness, Usage(0, 0), <<Error("MODEL_FAILURE", "", e)>>)

\* lines 124-141: the early return on a failed call
MultiFails(e) ==
    /\ pc = "awaiting" /\ ~settings.single_rule_mode
    /\ invocations' = [invocations EXCEPT
           ![1].status = "failed", ![1].error = Error("MODEL_FAILURE", "", e)]
    /\ completed' = Append(completed, 1)
    /\ pc' = "done"
    /\ response' = failure_response(request, e)
    /\ UNCHANGED <<settings, policy_config, request, rules, observations, ran>>

\* results in the order the calls completed (as asyncio.as_completed would)
gather_as_completed(invs, order) == [k \in 1..Len(order) |-> invs[order[k]]]

\* asyncio.gather returns the results in the order of the awaitables it was
\* given; the sequential loop visits the rules in order
gather(invs, order) == invs

RECURSIVE extend_all(_)
extend_all(results) ==
    IF results = <<>> THEN <<>>
    ELSE Head(results).observations \o extend_all(Tail(results))

\* the usage of the last result instead of the running sum
total_usage_overwritten(results) ==
    IF results = <<>> THEN Usage(0, 0) ELSE results[Len(results)].usage

\* lines 79-80, 90-91: total_usage += usage, over the results in order
RECURSIVE total_usage(_)
total_usage(results) ==
    IF results = <<>> THEN Usage(0, 0)
    ELSE LET rest == total_usage(Tail(results))
         IN  Usage(Head(results).usage.input_tokens + rest.input_tokens,
                   Head(results).usage.output_tokens + rest.output_tokens)

RECURSIVE collect_errors(_)
collect_errors(results) ==
    IF results = <<>> THEN <<>>
    ELSE (IF Head(results).error # NoError THEN <<Head(results).error>> ELSE <<>>)
         \o collect_errors(Tail(results))

\* merging as soon as one call has completed, without awaiting the others
SingleProceed_first_completed(invs, order, stages) ==
    IF ~settings.single_rule_parallel /\ Len(invs) < Len(rules)
    THEN /\ invocations' = Append(invs, Invocation({rules[Len(invs) + 1]}))
         /\ ran' = stages
         /\ UNCHANGED <<pc, observations, response>>
    ELSE LET results == gather(invs, order)
         IN  /\ invocations' = invs
             /\ pc' = "done"
             /\ ran' = stages \cup {"policy"}
             /\ observations' = extend_all(results)
             /\ response' = assemble(extend_all(results), total_usage(results),
                                     collect_errors(results), request, policy_config)

\* the sequential loop leaving at the first rule whose call failed, the
\* gather of the parallel branch unchanged
SingleProceed_sequential_stops_at_failure(invs, order, stages) ==
    IF ~settings.single_rule_parallel /\ Len(invs) < Len(rules)
       /\ invs[order[Len(order)]].status # "failed"
    THEN /\ invocations' = Append(invs, Invocation({rules[Len(invs) + 1]}))
         /\ ran' = stages
         /\ UNCHANGED <<pc, observations, response>>
    ELSE IF \E j \in 1..Len(invs) : invs[j].status = "awaiting"
    THEN /\ invocations' = invs
         /\ ran' = stages
         /\ UNCHANGED <<pc, observations, response>>
    ELSE LET results == gather(invs, order)
         IN  /\ invocations' = invs
             /\ pc' = "done"
             /\ ran' = stages \cup {"policy"}
             /\ observations' = extend_all(results)
             /\ response' = assemble(extend_all(results), total_usage(results),
                                     collect_errors(results), request, policy_config)

\* What run_review does once _evaluate_single_rule for invocation i has
\* produced its triple: the sequential loop goes on to the next rule, gather
\* waits for the remaining calls, and after the last one the results are
\* merged, passed through the policy and returned.
SingleProceed(invs, order, stages) ==
    IF ~settings.single_rule_parallel /\ Len(invs) < Len(rules)
    THEN /\ invocations' = Append(invs, Invocation({rules[Len(invs) + 1]}))
         /\ ran' = stages
         /\ UNCHANGED <<pc, observations, response>>
    ELSE IF \E j \in 1..Len(invs) : invs[j].status = "awaiting"
    THEN /\ invocations' = invs
         /\ ran' = stages
         /\ UNCHANGED <<pc, observations, response>>
    ELSE LET results == gather(invs, order)
         IN  /\ invocations' = invs
             /\ pc' = "done"
             /\ ran' = stages \cup {"policy"}
             /\ observations' = extend_all(results)
             /\ response' = assemble(extend_all(results), total_usage(results),
                                     collect_errors(results), request, policy_config)

SingleReturns(i, raw, usage) ==
    /\ pc = "awaiting" /\ settings.single_rule_mode
    /\ i \in 1..Len(invocations) /\ invocations[i].status = "awaiting"
    /\ completed' = Append(completed, i)
    /\ LET parsed == parse_model_output(raw, request.content.len,
                                        invocations[i].known_refs)
           invs == [invocations EXCEPT
                       ![i].status = IF parsed.raised THEN "raised" ELSE "returned",
                       ![i].raw = raw, ![i].usage = usage,
                       ![i].observations = parsed.observations]
       IN  IF parsed.raised
           THEN /\ invocations' = invs
                /\ pc' = "raised"
                /\ ran' = ran \cup {"parse"}
                /\ UNCHANGED <<observations, response>>
           ELSE SingleProceed(invs, completed', ran \cup {"parse"})
    /\ UNCHANGED <<settings, policy_config, request, rules>>

SingleFails(i, e) ==
    /\ pc = "awaiting" /\ settings.single_rule_mode
    /\ i \in 1..Len(invocations) /\ invocations[i].status = "awaiting"
    /\ completed' = Append(completed, i)
    /\ LET ref == CHOOSE r \in invocations[i].known_refs : TRUE
       IN  SingleProceed([invocations EXCEPT
                             ![i].status = "failed",
                             ![i].error = Error("MODEL_FAILURE", ref, e)],
                         completed', ran)
    /\ UNCHANGED <<settings, policy_config, request, rules>>

Next ==
    \/ \E req \in Requests, n \in 1..MaxRules : Start(req, n)
    \/ \E raw \in Replies : \E usage \in UsagesOf(raw) : MultiReturns(raw, usage)
    \/ \E e \in Exceptions : MultiFails(e)
    \/ \E i \in 1..MaxRules, raw \in Replies : \E usage \in UsagesOf(raw) :
          SingleReturns(i, raw, usage)
    \/ \E i \in 1..MaxRules, e \in Exceptions : SingleFails(i, e)

Spec == Init /\ [][Next]_vars

----------------------------------------------------------------------------
(* The policy functions called on their own (as tests/test_policy.py does). *)
(* `observations` is the caller's list, whose Observation objects the       *)
(* functions may assign to in place; response.observations holds the list   *)
(* the function returned; pc names the function that was called.            *)

MaxBatch == 3     \* observations in a batch handed to a policy function

Obs(span, severity, standard_ref, confidence) ==
    [span |-> span, severity |-> severity, category |-> "clarity",
     standard_ref |-> standard_ref, message |-> "m", suggested_fix |-> JNull,
     rationale |-> JNull, standard_excerpt |-> JNull, confidence |-> confidence]

\* the (span, standard_ref) pairs and confidences of the observations drawn
PolicyKeys == {<< <<>>, "T-1" >>, << <<0, 3>>, "T-1" >>, << <<0, 3>>, "T-2" >>}
PolicyConfidences == {violation_medium, 90}

PolicyObservations ==
    {Obs(key[1], severity, key[2], confidence) :
        key \in PolicyKeys, severity \in VALID_SEVERITIES,
        confidence \in PolicyConfidences}

PolicyBatches ==
    UNION {[1..n -> PolicyObservations] : n \in 0..MaxBatch}

\* strictness, min_confidence and max_observations of the calls
PolicyRequests ==
    {Request(Content(MaxContentLen, "none"), "low", Options(TRUE, TRUE, 1, 80)),
     Request(Content(MaxContentLen, "none"), "low", Options(TRUE, TRUE, 2, 55)),
     Request(Content(MaxContentLen, "none"), "medium", Options(TRUE, TRUE, 2, 75)),
     Request(Content(MaxContentLen, "none"), "high", Options(TRUE, TRUE, 25, 90))}

Returned(list) == [NoResponse EXCEPT !.observations = list]

PolicyInit ==
    /\ settings = [single_rule_mode |-> FALSE, single_rule_parallel |-> FALSE]
    /\ policy_config = PolicyConfig
    /\ request \in PolicyRequests
    /\ observations \in PolicyBatches
    /\ rules = <<>>
    /\ pc = "idle"
    /\ invocations = <<>>
    /\ completed = <<>>
    /\ ran = {}
    /\ response = NoResponse

PolicyFrame == UNCHANGED <<settings, policy_config, request, rules, invocations,
                           completed, ran>>

CallConfidenceGate ==
    /\ pc = "idle"
    /\ pc' = "confidence_gate"
    /\ response' = Returned(confidence_gate(observations, request.options.min_confidence))
    /\ observations' = gate_in_place(observations, request.options.min_confidence)
    /\ PolicyFrame

CallStrictnessBias ==
    /\ pc = "idle"
    /\ pc' = "strictness_bias"
    /\ response' = Returned(strictness_bias(observations, request.strictness, policy_config))
    /\ observations' = strictness_bias(observations, request.strictness, policy_config)
    /\ PolicyFrame

CallDeduplicate ==
    /\ pc = "idle"
    /\ pc' = "deduplicate"
    /\ response' = Returned(deduplicate(observations))
    /\ UNCHANGED observations
    /\ PolicyFrame

CallSortObservations ==
    /\ pc = "idle"
    /\ pc' = "sort_observations"
    /\ response' = Returned(sort_observations(observations))
    /\ UNCHANGED observations
    /\ PolicyFrame

\* apply_policy on the caller's batch, and again on the list it returned
CallApplyPolicy ==
    /\ pc \in {"idle", "apply_policy"}
    /\ pc' = IF pc = "idle" THEN "apply_policy" ELSE "apply_policy_again"
    /\ LET input == IF pc = "idle" THEN observations ELSE response.observations
       IN  /\ response' = Returned(apply_policy(input, request.strictness,
                                      request.options.min_confidence,
                                      request.options.max_observations, policy_config))
           /\ observations' = apply_policy_in_place(input, request.strictness,
                                      request.options.min_confidence, policy_config)
    /\ PolicyFrame

PolicyNext ==
    \/ CallConfidenceGate
    \/ CallStrictnessBias
    \/ CallDeduplicate
    \/ CallSortObservations
    \/ CallApplyPolicy

PolicySpec == PolicyInit /\ [][PolicyNext]_vars

----------------------------------------------------------------------------
(* Multi-rule reviews whose reply is an object with an "observations"      *)
(* array of up to MaxCandidates candidates: the same Start and             *)
(* MultiReturns, with the candidates drawn from a wider set.               *)

MaxCandidates == 3     \* candidates in the "observations" array of a reply

\* values a model may put under "confidence"
ConfidenceValues ==
    {Missing, JStr("high"), JFloat(-50), JInt(2), JBigInt(1)}

\* cGood1 with each confidence value
ConfidenceCandidates ==
    {[cGood1 EXCEPT !.confidence = c, !.span = SpanNull] : c \in ConfidenceValues}

\* candidates at confidence 0.9 that differ in span and standard_ref
KeyCandidates ==
    {cDup1, [cDup1 EXCEPT !.span = SpanNull], cTie2}

\* cGood1 with an unrecognised severity and a null category, and cGood1
\* with no "severity" key
EnumCandidates ==
    {[cGood1 EXCEPT !.severity = JStr("critical"), !.category = JNull,
                    !.span = SpanNull],
     [cGood1 EXCEPT !.severity = Missing, !.span = SpanNull]}

Candidates == ConfidenceCandidates \cup KeyCandidates \cup EnumCandidates

CandidateReplies ==
    {<<Json(TObj(items))>> :
        items \in UNION {[1..n -> Candidates] : n \in 0..MaxCandidates}}

ParseInit == Init /\ ~settings.single_rule_mode /\ policy_config = PolicyConfig

ParseNext ==
    \/ \E req \in Requests, n \in 1..MaxRules : Start(req, n)
    \/ \E raw \in CandidateReplies : MultiReturns(raw, Usage(0, 0))

ParseSpec == ParseInit /\ [][ParseNext]_vars

----------------------------------------------------------------------------
(* extract_json called on its own (as tests/test_parser.py does).  The text  *)
(* is kept in invocations[1].raw, response is the value extract_json         *)
(* returned, and pc is "extract_json" after a call that returned and         *)
(* "raised" after a call that an exception left.                             *)

MaxAtoms == 3     \* atoms in a text

\* Consecutive atoms are separate tokens of the text.
TextAtoms ==
    {Ws, Prose, Braced,
     Json(PyNone), Json(TNum), Json(TDeep), Json(TObj(<<>>)), Json(TObjNoKey),
     Fence("json", <<Json(TObj(<<>>))>>),           \* ```json {...} ```
     Fence("", <<Json(TDeep)>>),                    \* ``` [[[[...]]]] ```
     Fence("py", <<Json(TObjNoKey)>>),              \* ```py {...} ```
     Fence("json", <<Prose>>)}                      \* ```json words ```

Texts == UNION {[1..n -> TextAtoms] : n \in 0..MaxAtoms}

ExtractInit ==
    /\ settings = [single_rule_mode |-> FALSE, single_rule_parallel |-> FALSE]
    /\ policy_config = PolicyConfig
    /\ request = NoRequest
    /\ rules = <<>>
    /\ pc = "idle"
    /\ invocations = <<>>
    /\ completed = <<>>
    /\ observations = <<>>
    /\ ran = {}
    /\ response = PyNone

CallExtractJson(raw) ==
    /\ pc = "idle"
    /\ LET data == extract_json(raw)
       IN  /\ invocations' = <<[Invocation({}) EXCEPT
                   !.raw = raw,
                   !.status = IF data = Raised THEN "raised" ELSE "returned"]>>
           /\ pc' = IF data = Raised THEN "raised" ELSE "extract_json"
           /\ response' = IF data = Raised THEN response ELSE data
    /\ UNCHANGED <<settings, policy_config, request, rules, completed,
                   observations, ran>>

ExtractNext == \E raw \in Texts : CallExtractJson(raw)

ExtractSpec == ExtractInit /\ [][ExtractNext]_vars

----------------------------------------------------------------------------
(* load_policy_config called on its own (as tests/test_config.py does).      *)
(* settings.policy_yaml is the content of the policy file as yaml.safe_load  *)
(* returns it, settings.environ the CSR_POLICY_ variables of os.environ;     *)
(* policy_config is the PolicyConfig the call returned.                      *)

MaxEnvVars == 2     \* CSR_POLICY_ variables set in the environment

IsFloatSetting(st) == st[1] = "thresholds" \/ st = <<"defaults", "min_confidence">>

\* the value a policy file gives a setting it defines: below the default
YamlValue(st) ==
    Num(IF IsFloatSetting(st) THEN "float" ELSE "int", PolicyConfig[st[1]][st[2]] - 2)

\* the numeral an environment variable gives a setting: above the default
EnvValue(st) ==
    Num(IF IsFloatSetting(st) THEN "float" ELSE "int", PolicyConfig[st[1]][st[2]] + 5)

\* a policy file defines any of the settings; as_int: violation_high is
\* written without a decimal point ("violation_high: 1")
PolicyFiles ==
    {[st \in PolicySettings |->
        IF st \notin S THEN Unset
        ELSE IF as_int /\ st = <<"thresholds", "violation_high">> THEN Num("int", 100)
        ELSE YamlValue(st)] :
        S \in SUBSET PolicySettings, as_int \in BOOLEAN}

Environments ==
    {[st \in PolicySettings |-> IF st \in S THEN EnvValue(st) ELSE Unset] :
        S \in {S \in SUBSET PolicySettings : Cardinality(S) <= MaxEnvVars}}

ConfigInit ==
    /\ \E d \in PolicyFiles, e \in Environments :
          settings = [single_rule_mode |-> FALSE, single_rule_parallel |-> FALSE,
                      policy_yaml |-> d, environ |-> e]
    /\ policy_config = PolicyConfig
    /\ request = NoRequest
    /\ rules = <<>>
    /\ pc = "idle"
    /\ invocations = <<>>
    /\ completed = <<>>
    /\ observations = <<>>
    /\ ran = {}
    /\ response = NoResponse

LoadPolicyConfig ==
    /\ pc = "idle"
    /\ LET loaded == load_policy_config(settings.policy_yaml, settings.environ)
       IN  /\ pc' = IF loaded.raised THEN "raised" ELSE "load_policy_config"
           /\ policy_config' = IF loaded.raised THEN policy_config ELSE loaded.config
    /\ UNCHANGED <<settings, request, rules, invocations, completed, observations,
                   ran, response>>

ConfigNext == LoadPolicyConfig

ConfigSpec == ConfigInit /\ [][ConfigNext]_vars

----------------------------------------------------------------------------
(* Properties *)

Multi       == ~settings.single_rule_mode
Single      == settings.single_rule_mode
Parallel    == settings.single_rule_mode /\ settings.single_rule_parallel
Sequential  == settings.single_rule_mode /\ ~settings.single_rule_parallel
Done        == pc = "done"
ContentLen  == request.content.len
HasCode(errors, code) == \E k \in 1..Len(errors) : errors[k].code = code
CountCode(errors, code) == Cardinality({k \in 1..Len(errors) : errors[k].code = code})
NonBlank(raw) == \E k \in 1..Len(raw) : raw[k].k # "ws"
Completed(i) == invocations[i].status \in {"returned", "failed", "raised"}

\* the entries of the "observations" array of a reply, <<>> when the reply
\* carries no such array
ReplyItems(raw) ==
    LET data == extract_json(raw)
    IN  IF data.t = "object" /\ data.hasObs /\ data.isList THEN data.items ELSE <<>>

\* C1: whatever the model does (failure, blank text, prose, JSON of any
\* top-level type) and in both modes, run_review returns a response and never
\* raises to its caller.
C1_NeverRaises == pc # "raised"

\* a two-element list of JSON integers with 0 <= start < end <= content length
IntegerPairInRange(span, content_length) ==
    /\ span.t = "list"
    /\ Len(span.items) = 2
    /\ \A i \in 1..2 : span.items[i].t = "int"
    /\ 0 <= span.items[1].n
    /\ span.items[1].n < span.items[2].n
    /\ span.items[2].n <= content_length

\* C2: every observation of a response has span null or 0 <= start < end <=
\* len(content), and a candidate that is acceptable but for a span breaking
\* this (wrong shape, non-integer, negative start, start >= end, end past the
\* content) is kept with span null.
C2_SpanInRangeOrNullified ==
    /\ Done =>
         \A k \in 1..Len(response.observations) :
            LET span == response.observations[k].span
            IN  span = <<>> \/ (0 <= span[1] /\ span[1] < span[2] /\ span[2] <= ContentLen)
    /\ \A i \in 1..Len(invocations) :
         invocations[i].status = "returned" =>
            \A j \in 1..Len(ReplyItems(invocations[i].raw)) :
               LET c == ReplyItems(invocations[i].raw)[j]
               IN  ( /\ c.kind = "dict"
                     /\ c.span.t \notin {"missing", "null"}
                     /\ ~IntegerPairInRange(c.span, ContentLen)
                     /\ validate_observation([c EXCEPT !.span = SpanNull], ContentLen,
                                             invocations[i].known_refs) # <<>> )
                   => \E k \in 1..Len(invocations[i].observations) :
                         /\ invocations[i].observations[k].message = c.message.s
                         /\ invocations[i].observations[k].span = <<>>

\* C3: every observation of a response references one of the retrieved rules,
\* and in single-rule mode every observation produced by the invocation for
\* rule r references r.
C3_RefsAreRetrieved ==
    /\ Done =>
         \A k \in 1..Len(response.observations) :
            response.observations[k].standard_ref \in Range(rules)
    /\ Single =>
         \A i \in 1..Len(invocations) :
            /\ invocations[i].known_refs = {rules[i]}
            /\ \A k \in 1..Len(invocations[i].observations) :
                  invocations[i].observations[k].standard_ref = rules[i]

\* a single-rule review that returned observations although one reply carried
\* an otherwise acceptable candidate for another retrieved rule
C3_Witness ==
    /\ Done /\ Single /\ response.observations # <<>>
    /\ \E i \in 1..Len(invocations) :
         \E j \in 1..Len(ReplyItems(invocations[i].raw)) :
            LET c == ReplyItems(invocations[i].raw)[j]
            IN  /\ c.kind = "dict"
                /\ validate_observation(c, ContentLen, Range(rules)) # <<>>
                /\ c.standard_ref.s \notin invocations[i].known_refs

\* C4: in multi-rule mode a failed invocation yields a response with no
\* observations and exactly one error, MODEL_FAILURE, and neither parsing nor
\* the policy has run.
C4_MultiFailureShortCircuits ==
    (Multi /\ \E i \in 1..Len(invocations) : invocations[i].status = "failed") =>
        /\ Done /\ response.returned
        /\ response.observations = <<>>
        /\ Len(response.errors) = 1
        /\ response.errors[1].code = "MODEL_FAILURE"
        /\ ran \cap {"parse", "policy"} = {}
        /\ observations = <<>>

C4_Witness ==
    Multi /\ Done /\ Len(invocations) = 1 /\ invocations[1].status = "failed"

\* C5: in multi-rule mode, after a successful invocation, the response has a
\* MODEL_PARSE_FAILURE error exactly when no observation was validated, the
\* reply is not blank and extraction failed or gave an object without the
\* "observations" key; {"observations": []} and a blank reply give no
\* observations and no errors.
C5_ParseFailureIff ==
    (Multi /\ Done /\ invocations[1].status = "returned") =>
        LET raw  == invocations[1].raw
            data == extract_json(raw)
        IN  /\ HasCode(response.errors, "MODEL_PARSE_FAILURE")
                <=> ( /\ invocations[1].observations = <<>>
                      /\ NonBlank(raw)
                      /\ (data.t = "null" \/ (data.t = "object" /\ ~data.hasObs)) )
            /\ (~NonBlank(raw) \/ raw = <<Json(TObj(<<>>))>>)
                => (response.observations = <<>> /\ response.errors = <<>>)

C5_Witness ==
    /\ Multi /\ Done /\ invocations[1].status = "returned"
    /\ HasCode(response.errors, "MODEL_PARSE_FAILURE")
    /\ invocations[1].raw = <<Prose>>

\* a reply from which no observations payload can be extracted: nothing
\* parses, or what parses is an object without the "observations" key
NoPayload(raw) ==
    LET data == extract_json(raw)
    IN  data.t = "null" \/ (data.t = "object" /\ ~data.hasObs)

\* C6: in both modes, an invocation that succeeds with non-blank text from
\* which no observations payload can be extracted puts a MODEL_PARSE_FAILURE
\* entry in the response's errors.
C6_ParseFailureInBothModes ==
    Done =>
        \A i \in 1..Len(invocations) :
            ( /\ invocations[i].status = "returned"
              /\ NonBlank(invocations[i].raw)
              /\ NoPayload(invocations[i].raw) )
            => HasCode(response.errors, "MODEL_PARSE_FAILURE")

\* the entries of a reply that validate on their own
ValidIndices(items, content_length, known_refs) ==
    {j \in 1..Len(items) :
        /\ items[j].kind = "dict"
        /\ validate_observation(items[j], content_length, known_refs) # <<>>}

\* the k-th smallest element of a set of numbers
KthOf(S, k) == CHOOSE j \in S : Cardinality({m \in S : m < j}) = k - 1

Failed == {i \in 1..Len(invocations) : invocations[i].status = "failed"}
Succeeded == {i \in 1..Len(invocations) : invocations[i].status = "returned"}

\* the observations of invocations 1..n, in rule order
RECURSIVE ObservationsUpTo(_)
ObservationsUpTo(n) ==
    IF n = 0 THEN <<>> ELSE ObservationsUpTo(n - 1) \o invocations[n].observations

\* C7: the pre-policy observations of a reply are exactly its candidates that
\* validate on their own, in reply order; a rejected candidate (unknown ref,
\* empty message, non-object entry, malformed type) removes no other one and
\* adds no error to the response.
C7_PartialSalvage ==
    /\ \A i \in Succeeded :
         LET items == ReplyItems(invocations[i].raw)
             V     == ValidIndices(items, ContentLen, invocations[i].known_refs)
             obs   == invocations[i].observations
         IN  /\ Len(obs) = Cardinality(V)
             /\ \A k \in 1..Len(obs) :
                   <<obs[k]>> = validate_observation(items[KthOf(V, k)], ContentLen,
                                                     invocations[i].known_refs)
    /\ Done /\ Failed = {} =>
         /\ observations = ObservationsUpTo(Len(invocations))
         /\ (\A i \in Succeeded : ReplyItems(invocations[i].raw) # <<>>)
               => response.errors = <<>>

\* a reply with accepted and rejected candidates, answered without errors
C7_Witness ==
    /\ Done /\ response.errors = <<>>
    /\ \E i \in Succeeded :
         /\ invocations[i].observations # <<>>
         /\ Len(invocations[i].observations) < Len(ReplyItems(invocations[i].raw)) - 1
         /\ invocations[i].observations[1].message = "good2"

\* C8: in single-rule mode each rule whose invocation fails contributes one
\* MODEL_FAILURE error carrying its standard_ref and no observations, every
\* other rule is still evaluated, the observations of the succeeding rules
\* reach the policy step, and there are as many MODEL_FAILURE errors as
\* failing rules.
C8_FailuresArePerRule ==
    (Single /\ pc \in {"done", "raised"} /\ Failed # {}) =>
        /\ Done
        /\ Len(invocations) = Len(rules)
        /\ \A i \in 1..Len(invocations) : Completed(i)
        /\ CountCode(response.errors, "MODEL_FAILURE") = Cardinality(Failed)
        /\ \A i \in Failed :
              /\ invocations[i].observations = <<>>
              /\ \E k \in 1..Len(response.errors) :
                    /\ response.errors[k].code = "MODEL_FAILURE"
                    /\ response.errors[k].ref = rules[i]
        /\ observations = ObservationsUpTo(Len(invocations))
        /\ "policy" \in ran

RECURSIVE SumInput(_)
SumInput(S) ==
    IF S = {} THEN 0
    ELSE LET i == CHOOSE j \in S : TRUE
         IN  invocations[i].usage.input_tokens + SumInput(S \ {i})

RECURSIVE SumOutput(_)
SumOutput(S) ==
    IF S = {} THEN 0
    ELSE LET i == CHOOSE j \in S : TRUE
         IN  invocations[i].usage.output_tokens + SumOutput(S \ {i})

\* C9: the usage of response.meta is the component-wise sum of the usage of
\* the invocations that succeeded (a failed one adds 0); in multi-rule mode it
\* is the usage the single invocation returned.
C9_UsageIsSummed ==
    Done =>
        /\ response.meta.usage.input_tokens = SumInput(Succeeded)
        /\ response.meta.usage.output_tokens = SumOutput(Succeeded)
        /\ (Multi /\ Succeeded # {}) => response.meta.usage = invocations[1].usage

\* two rules answered, each reporting tokens
C9_Witness ==
    /\ Done /\ Single /\ Cardinality(Succeeded) >= 2
    /\ \A i \in Succeeded : invocations[i].usage.input_tokens > 0
    /\ response.meta.usage.input_tokens >= 2 * MaxTokens

\* C10: in single-rule parallel mode the response (observations, errors,
\* usage) is determined by the per-rule outcomes alone: it is what merging the
\* results in rule order gives, whatever order the calls completed in.
C10_CompletionOrderIrrelevant ==
    (Parallel /\ Done) =>
        /\ observations = ObservationsUpTo(Len(rules))
        /\ response = assemble(ObservationsUpTo(Len(rules)),
                               Usage(SumInput(Succeeded), SumOutput(Succeeded)),
                               [k \in 1..Cardinality(Failed) |->
                                   invocations[KthOf(Failed, k)].error],
                               request, policy_config)

\* the calls completed out of rule order, both rules produced an observation
\* with the same severity and confidence, and truncation kept only one
C10_Witness ==
    /\ Parallel /\ Done /\ Len(completed) >= 2 /\ completed[1] # 1
    /\ invocations[1].observations # <<>> /\ invocations[2].observations # <<>>
    /\ invocations[1].observations[1].severity = invocations[2].observations[1].severity
    /\ invocations[1].observations[1].confidence = invocations[2].observations[1].confidence
    /\ Len(response.observations) = 1

\* C11: in single-rule parallel mode one invocation is issued per retrieved
\* rule (the i-th for the i-th rule, the rules being distinct), and the policy
\* step has not started and no response exists while one of them is still
\* awaited.
C11_AllAwaitedBeforePolicy ==
    (Parallel /\ pc # "idle") =>
        /\ Len(invocations) = Len(rules)
        /\ \A i \in 1..Len(rules) : invocations[i].known_refs = {rules[i]}
        /\ \A i, j \in 1..Len(rules) : rules[i] = rules[j] => i = j
        /\ ("policy" \in ran \/ response.returned \/ pc = "done") =>
              \A i \in 1..Len(invocations) :
                 invocations[i].status \in {"returned", "failed"}

\* a parallel review of two rules answered after one call failed and the
\* other returned
C11_Witness ==
    /\ Parallel /\ Done /\ response.returned /\ Len(rules) = 2
    /\ Failed # {} /\ Succeeded # {}

\* the list handed to the policy function the next step calls
PolicyInput == IF pc = "apply_policy" THEN response.observations ELSE observations

\* C12: apply_policy applied to its own output, with the same strictness,
\* min_confidence and max_observations, returns that output again.
C12_ApplyPolicyIdempotent ==
    [][pc' = "apply_policy_again" => response'.observations = response.observations]_vars

OneStepDown(severity) == IF severity = "violation" THEN "warning" ELSE "info"

\* C13: confidence_gate keeps an observation at or above min_confidence as it
\* is, lowers one below it by exactly one severity step unless it is info,
\* drops an info below it, and keeps the survivors in their order.
C13_ConfidenceGate ==
    [][pc' = "confidence_gate" =>
        LET in  == observations
            out == response'.observations
            m   == request.options.min_confidence
            S   == {i \in 1..Len(in) : in[i].confidence >= m \/ in[i].severity # "info"}
        IN  /\ Len(out) = Cardinality(S)
            /\ \A k \in 1..Len(out) :
                  LET o == in[KthOf(S, k)]
                  IN  out[k] = IF o.confidence >= m THEN o
                               ELSE [o EXCEPT !.severity = OneStepDown(o.severity)]
      ]_vars

\* the gate returned an observation exactly at min_confidence unchanged,
\* lowered another and dropped a third
C13_Witness ==
    /\ pc = "confidence_gate" /\ Len(observations) = 3
    /\ Len(response.observations) = 2
    /\ response.observations[1].confidence = request.options.min_confidence
    /\ response.observations[1].severity = "violation"
    /\ response.observations[2].confidence < request.options.min_confidence
    /\ response.observations[2].severity = "info"

\* C14: strictness_bias changes exactly the violations whose confidence is
\* strictly below the threshold of the strictness (0.85 low, 0.75 medium,
\* 0.70 high), making them warnings; nothing is added or removed.
C14_StrictnessBias ==
    [][pc' = "strictness_bias" =>
        LET in  == observations
            out == response'.observations
            threshold == CASE request.strictness = "low" -> 85
                           [] request.strictness = "medium" -> 75
                           [] request.strictness = "high" -> 70
        IN  /\ Len(out) = Len(in)
            /\ \A i \in 1..Len(in) :
                  out[i] = IF in[i].severity = "violation" /\ in[i].confidence < threshold
                           THEN [in[i] EXCEPT !.severity = "warning"]
                           ELSE in[i]
      ]_vars

\* under low strictness a violation at 0.75 came back as a warning next to a
\* violation at 0.90 and an info that were left alone
C14_Witness ==
    /\ pc = "strictness_bias" /\ request.strictness = "low"
    /\ Len(response.observations) = 3
    /\ response.observations[1].severity = "warning"
    /\ response.observations[1].confidence = 75
    /\ observations[1].severity = "warning"
    /\ response.observations[2] = Obs(<<>>, "violation", "T-1", 90)
    /\ response.observations[3].severity = "info"

\* (span, standard_ref) of an observation, an absent span being <<>>
KeyOf(o) == <<o.span, o.standard_ref>>

\* C15: deduplicate returns one observation per distinct (span,
\* standard_ref), absent spans counting as one value: the one of highest
\* confidence in its group and, among equals, the first encountered.
C15_Deduplicate ==
    [][pc' = "deduplicate" =>
        LET in  == observations
            out == response'.observations
        IN  /\ Len(out) = Cardinality({KeyOf(in[i]) : i \in 1..Len(in)})
            /\ \A k, l \in 1..Len(out) : KeyOf(out[k]) = KeyOf(out[l]) => k = l
            /\ \A i \in 1..Len(in) : \E k \in 1..Len(out) : KeyOf(out[k]) = KeyOf(in[i])
            /\ \A k \in 1..Len(out) :
                  LET G == {i \in 1..Len(in) : KeyOf(in[i]) = KeyOf(out[k])}
                      best == CHOOSE i \in G :
                                 \A j \in G : \/ in[j].confidence < in[i].confidence
                                              \/ /\ in[j].confidence = in[i].confidence
                                                 /\ j >= i
                  IN  out[k] = in[best]
      ]_vars

\* two observations without span for T-1 tied on confidence and the first
\* survived, next to one with another key
C15_Witness ==
    /\ pc = "deduplicate" /\ Len(observations) = 3 /\ Len(response.observations) = 2
    /\ KeyOf(observations[1]) = KeyOf(observations[3])
    /\ observations[1].span = <<>>
    /\ observations[1].confidence = observations[3].confidence
    /\ observations[1].severity # observations[3].severity
    /\ response.observations[1] = observations[1]
    /\ response.observations[2] = observations[2]

Rank(severity) == CASE severity = "violation" -> 0 [] severity = "warning" -> 1
                    [] severity = "info" -> 2

\* list is in order of severity rank, then of non-increasing confidence
Ordered(list) ==
    \A i, j \in 1..Len(list) :
        i < j => \/ Rank(list[i].severity) < Rank(list[j].severity)
                 \/ /\ Rank(list[i].severity) = Rank(list[j].severity)
                    /\ list[i].confidence >= list[j].confidence

\* out rearranges in, elements equal in severity and confidence staying in
\* their order
StableRearrangement(in, out) ==
    /\ Len(out) = Len(in)
    /\ \E pi \in [1..Len(in) -> 1..Len(in)] :
          /\ \A k, l \in 1..Len(in) : pi[k] = pi[l] => k = l
          /\ \A k \in 1..Len(in) : out[k] = in[pi[k]]
          /\ \A k, l \in 1..Len(in) :
                ( /\ k < l
                  /\ out[k].severity = out[l].severity
                  /\ out[k].confidence = out[l].confidence ) => pi[k] < pi[l]

\* the list apply_policy sorts: its input gated, biased and deduplicated
Deduplicated(in) ==
    deduplicate(strictness_bias(
        confidence_gate(in, request.options.min_confidence),
        request.strictness, policy_config))

\* C16: a list returned by sort_observations or by apply_policy is in order
\* of severity rank (violation, warning, info) and, within a severity, of
\* non-increasing confidence; observations equal in both keep the order they
\* had in the list that was sorted.
C16_Sorted ==
    [][/\ pc' = "sort_observations" =>
            /\ Ordered(response'.observations)
            /\ StableRearrangement(observations, response'.observations)
       /\ pc' \in {"apply_policy", "apply_policy_again"} =>
            /\ Ordered(response'.observations)
            /\ LET out == response'.observations
                   D   == Deduplicated(PolicyInput)
                   At(o) == CHOOSE i \in 1..Len(D) : D[i] = o
               IN  /\ \A k \in 1..Len(out) : \E i \in 1..Len(D) : D[i] = out[k]
                   /\ \A k, l \in 1..Len(out) :
                         ( /\ k < l
                           /\ out[k].severity = out[l].severity
                           /\ out[k].confidence = out[l].confidence )
                         => At(out[k]) < At(out[l])
      ]_vars

\* three observations sorted: a violation moved to the front, and two
\* warnings of equal confidence with different keys kept their order
C16_Witness ==
    /\ pc = "sort_observations" /\ Len(observations) = 3
    /\ observations[3].severity = "violation"
    /\ observations[1].severity = "warning" /\ observations[2].severity = "warning"
    /\ observations[1].confidence = observations[2].confidence
    /\ KeyOf(observations[1]) # KeyOf(observations[2])
    /\ response.observations = <<observations[3], observations[1], observations[2]>>

\* C17: apply_policy returns at most max_observations observations, and they
\* are a prefix of the sorted deduplicated list: nothing cut off ranks before
\* something kept.
C17_Truncated ==
    [][pc' \in {"apply_policy", "apply_policy_again"} =>
        LET out  == response'.observations
            full == sort_observations(Deduplicated(PolicyInput))
        IN  /\ Len(out) <= request.options.max_observations
            /\ Len(out) <= Len(full)
            /\ out = SubSeq(full, 1, Len(out))
            /\ \A k \in 1..Len(out) : \A d \in (Len(out) + 1)..Len(full) :
                  \/ Rank(out[k].severity) < Rank(full[d].severity)
                  \/ /\ Rank(out[k].severity) = Rank(full[d].severity)
                     /\ out[k].confidence >= full[d].confidence
      ]_vars

\* a batch whose last observation, a violation, is the only one kept by
\* max_observations = 1 while two others are cut off
C17_Witness ==
    /\ pc = "apply_policy" /\ request.options.max_observations = 1
    /\ Len(observations) = 3 /\ Len(response.observations) = 1
    /\ observations[3].severity = "violation"
    /\ observations[1].severity = "info" /\ observations[2].severity = "warning"
    /\ KeyOf(observations[1]) # KeyOf(observations[2])
    /\ KeyOf(observations[2]) # KeyOf(observations[3])
    /\ KeyOf(observations[1]) # KeyOf(observations[3])
    /\ \A i \in 1..3 : observations[i].confidence = 90
    /\ response.observations[1] = observations[3]

\* the number a JSON value denotes, in hundredths, cut to [0, 1]
Clamped(j) ==
    LET v == IF j.t = "float" THEN j.n ELSE j.n * 100
    IN  IF v < 0 THEN 0 ELSE IF v > 100 THEN 100 ELSE v

IsJsonNumber(j) == j.t \in {"int", "bigint", "float"}

\* the candidates of a reply that C18 calls valid: known standard_ref,
\* non-empty message, confidence at or above min_confidence
ValidForRequest(items) ==
    {j \in 1..Len(items) :
        /\ items[j].kind = "dict"
        /\ items[j].standard_ref.t = "str" /\ items[j].standard_ref.s \in Range(rules)
        /\ items[j].message.t = "str" /\ items[j].message.s # ""
        /\ IsJsonNumber(items[j].confidence)
        /\ Clamped(items[j].confidence) >= request.options.min_confidence}

\* C18: when the reply holds more valid observations (known standard_ref,
\* non-empty message, confidence at or above min_confidence) than
\* max_observations, the response holds exactly max_observations.
C18_ExactlyMaxObservations ==
    (Multi /\ Done /\ Succeeded # {}) =>
        ( Cardinality(ValidForRequest(ReplyItems(invocations[1].raw)))
             > request.options.max_observations
          => Len(response.observations) = request.options.max_observations )

\* position among the accepted candidates of candidate j of a reply
RankIn(V, j) == Cardinality({m \in V : m <= j})

\* the candidates of invocation i that are acceptable whatever is thought of
\* their confidence: they are accepted with confidence 0.5 in its place
Acceptable(i) ==
    LET items == ReplyItems(invocations[i].raw)
    IN  {j \in 1..Len(items) :
            /\ items[j].kind = "dict"
            /\ validate_observation([items[j] EXCEPT !.confidence = JFloat(50)],
                                    ContentLen, invocations[i].known_refs) # <<>>}

\* C19: a candidate whose confidence is a number, below 0 and above 1
\* included, is not rejected for it and its observation carries the value
\* clamped into [0, 1]; every observation of a response has a confidence in
\* [0, 1].
C19_ConfidenceClamped ==
    /\ \A i \in Succeeded :
         LET items == ReplyItems(invocations[i].raw)
             V     == ValidIndices(items, ContentLen, invocations[i].known_refs)
         IN  \A j \in Acceptable(i) :
                IsJsonNumber(items[j].confidence) =>
                    /\ j \in V
                    /\ invocations[i].observations[RankIn(V, j)].confidence
                          = Clamped(items[j].confidence)
    /\ Done => \A k \in 1..Len(response.observations) :
                  /\ response.observations[k].confidence >= 0
                  /\ response.observations[k].confidence <= 100

\* C20: a candidate whose confidence is missing or is not a number is given
\* the confidence 0.5.
C20_ConfidenceDefault ==
    \A i \in Succeeded :
        LET items == ReplyItems(invocations[i].raw)
            V     == ValidIndices(items, ContentLen, invocations[i].known_refs)
        IN  \A j \in Acceptable(i) :
               ~IsJsonNumber(items[j].confidence) =>
                   /\ j \in V
                   /\ invocations[i].observations[RankIn(V, j)].confidence = 50

\* the candidates of invocation i that are acceptable whatever is thought of
\* their severity and category: they are accepted with "info" and "other"
\* in their place
AcceptableButEnums(i) ==
    LET items == ReplyItems(invocations[i].raw)
    IN  {j \in 1..Len(items) :
            /\ items[j].kind = "dict"
            /\ validate_observation([items[j] EXCEPT !.severity = JStr("info"),
                                                     !.category = JStr("other")],
                                    ContentLen, invocations[i].known_refs) # <<>>}

InVocabulary(j, valid) == j.t = "str" /\ j.s \in valid

\* C21: a candidate with a known standard_ref and a non-empty message whose
\* severity or category is outside its vocabulary, an unrecognised value or
\* no value at all, is accepted with severity "info" (category "other") in
\* its place; it is never rejected for its severity or category.
C21_EnumFallback ==
    \A i \in Succeeded :
        LET items == ReplyItems(invocations[i].raw)
            V     == ValidIndices(items, ContentLen, invocations[i].known_refs)
        IN  \A j \in AcceptableButEnums(i) :
               /\ j \in V
               /\ LET obs == invocations[i].observations[RankIn(V, j)]
                  IN  /\ obs.severity = IF InVocabulary(items[j].severity, VALID_SEVERITIES)
                                        THEN items[j].severity.s ELSE "info"
                      /\ obs.category = IF InVocabulary(items[j].category, VALID_CATEGORIES)
                                        THEN items[j].category.s ELSE "other"

\* the list apply_policy returns for the pre-policy list of the review
Policied ==
    apply_policy(observations, request.strictness, request.options.min_confidence,
                 request.options.max_observations, policy_config)

\* the rationale and standard_excerpt the model supplied with the candidate
\* whose message is msg
Supplied(msg) ==
    {<<OptStr(c.rationale), OptStr(c.standard_excerpt)>> :
        c \in {c \in UNION {Range(ReplyItems(invocations[i].raw)) : i \in Succeeded} :
                  c.kind = "dict" /\ c.message = JStr(msg)}}

\* C22: with return_rationale false every observation of the response has a
\* null rationale, with return_excerpts false a null standard_excerpt; with
\* the option true the field keeps the value the model supplied; the
\* response's observations are otherwise the list apply_policy returned:
\* same length, same order, every other field equal.
C22_StripAfterPolicy ==
    (Done /\ "policy" \in ran) =>
        /\ Len(response.observations) = Len(Policied)
        /\ \A k \in 1..Len(Policied) :
              LET out == response.observations[k]
              IN  /\ out.rationale =
                        IF request.options.return_rationale
                        THEN Policied[k].rationale ELSE JNull
                  /\ out.standard_excerpt =
                        IF request.options.return_excerpts
                        THEN Policied[k].standard_excerpt ELSE JNull
                  /\ [out EXCEPT !.rationale = JNull, !.standard_excerpt = JNull]
                        = [Policied[k] EXCEPT !.rationale = JNull,
                                              !.standard_excerpt = JNull]
                  /\ \E sup \in Supplied(out.message) :
                        /\ request.options.return_rationale => out.rationale = sup[1]
                        /\ request.options.return_excerpts => out.standard_excerpt = sup[2]

\* a review that asked for excerpts but not for the rationale returns an
\* observation with its excerpt and without its rationale
C22_Witness ==
    /\ Done /\ "policy" \in ran
    /\ ~request.options.return_rationale /\ request.options.return_excerpts
    /\ Len(response.observations) >= 1
    /\ Policied[1].rationale = JStr("why")
    /\ response.observations[1].rationale = JNull
    /\ response.observations[1].standard_excerpt = JStr("quote")

\* rule i comes before rule j: higher score, or equal score and earlier in
\* the rule set
Outranks(scores, i, j) ==
    scores[i] > scores[j] \/ (scores[i] = scores[j] /\ i < j)

\* C23: for a non-empty rule set retrieve returns exactly
\* k = min(configured k of the strictness, number of rules) distinct rules,
\* the k highest-scoring ones in descending order of score, rules of equal
\* score in their order in the rule set (also where k cuts through a tie).
C23_RetrieveTopK ==
    pc \in {"awaiting", "done", "raised"} =>
        LET n      == request.standards_set
            scores == Scores(request.content, n)
            k      == min(k_by_strictness(policy_config.retrieval)[request.strictness], n)
        IN  /\ Len(rules) = k
            /\ \A p \in 1..k :
                  rules[p] = RULE_REFS[CHOOSE i \in 1..n :
                      Cardinality({j \in 1..n : Outranks(scores, j, i)}) = p - 1]

\* the invocations whose reply reached extract_json
Extracted == {i \in 1..Len(invocations) : invocations[i].status \in {"returned", "raised"}}

\* C24: whatever the reply, extract_json returns None or a JSON object, never
\* an array, a string, a number or a boolean, so the lookup of the
\* "observations" key on a result that is not None cannot fail.
C24_ExtractJsonDictOrNone ==
    \A i \in Extracted :
        /\ extract_json(invocations[i].raw).t \in {"null", "object"}
        /\ invocations[i].status # "raised"

\* the text handed to extract_json
Text == invocations[1].raw

\* the three strategies of extract_json, each on its own: the value parsed
\* from the whole text, from the interior of the first fenced block, from
\* the text between the first "{" and the last "}"
WholeText == json_loads(Text)
FirstFence ==
    IF fence_match(Text).found THEN json_loads(fence_match(Text).group)
    ELSE [ok |-> FALSE, raises |-> FALSE, val |-> PyNone]
BraceToBrace == brace_match(Text).parsed

\* C25: extract_json tries the whole text, then the interior of the first
\* fenced block, then the text from the first "{" to the last "}", and
\* returns the result of the first that parses; a strategy that fails to
\* parse never keeps the next from running (no call ends in an exception),
\* and None is returned exactly when all three fail.
C25_ExtractJsonStrategies ==
    pc \in {"extract_json", "raised"} =>
        /\ pc # "raised"
        /\ response = IF WholeText.ok THEN WholeText.val
                      ELSE IF FirstFence.ok THEN FirstFence.val
                      ELSE IF BraceToBrace.ok THEN BraceToBrace.val
                      ELSE PyNone
        /\ (response = PyNone) <=> ~(WholeText.ok \/ FirstFence.ok \/ BraceToBrace.ok)

\* C26: every setting of the PolicyConfig returned by load_policy_config has
\* the value of its environment variable CSR_POLICY_<SECTION>_<KEY> when that
\* is set, otherwise the value of the YAML file when the file defines the
\* key, otherwise the code default.
C26_EnvOverYamlOverDefault ==
    pc \in {"load_policy_config", "raised"} =>
        /\ pc # "raised"
        /\ \A st \in PolicySettings :
              policy_config[st[1]][st[2]] =
                  IF settings.environ[st] # Unset THEN settings.environ[st].n
                  ELSE IF settings.policy_yaml[st] # Unset THEN settings.policy_yaml[st].n
                  ELSE PolicyConfig[st[1]][st[2]]

\* C27: apply_policy and each of its steps leave the observations passed in
\* as they were: after the call every input observation has the severity and
\* the other fields it had before, and changes show in the returned list only.
C27_PolicyIsPure ==
    [][pc' \in {"confidence_gate", "strictness_bias", "deduplicate",
                "sort_observations", "apply_policy", "apply_policy_again"}
         => observations' = PolicyInput]_vars

\* C28: across one apply_policy call every observation of the output has its
\* input severity or the severity exactly one step below it; none is lowered
\* by both the confidence gate and the strictness bias, and none goes from
\* violation to info.  (in[KthOf(S, k)] is the input observation that the
\* k-th observation past the gate and the bias comes from.)
C28_AtMostOneStepDown ==
    [][pc' \in {"apply_policy", "apply_policy_again"} =>
        LET in    == PolicyInput
            out   == response'.observations
            m     == request.options.min_confidence
            S     == {i \in 1..Len(in) : in[i].confidence >= m \/ in[i].severity # "info"}
            gated == confidence_gate(in, m)
            based == strictness_bias(gated, request.strictness, policy_config)
        IN  /\ Len(based) = Cardinality(S)
            /\ \A k \in 1..Len(based) :
                  LET o == in[KthOf(S, k)]
                  IN  /\ based[k] = [o EXCEPT !.severity = based[k].severity]
                      /\ \/ based[k].severity = o.severity
                         \/ /\ o.severity # "info"
                            /\ based[k].severity = OneStepDown(o.severity)
                      /\ ~(o.severity = "violation" /\ based[k].severity = "info")
                      /\ gated[k].severity # o.severity
                            => based[k].severity = gated[k].severity
            /\ \A k \in 1..Len(out) : \E j \in 1..Len(based) : out[k] = based[j]
      ]_vars

\* apply_policy returned as a warning an observation that was below both
\* min_confidence (0.8) and the violation threshold of its strictness (0.85):
\* it came in as a violation and was lowered once
C28_Witness ==
    /\ pc = "apply_policy" /\ request.strictness = "low"
    /\ request.options.min_confidence = 80
    /\ Len(response.observations) = 1
    /\ response.observations[1].severity = "warning"
    /\ response.observations[1].confidence = 75
    /\ \A i \in 1..Len(observations) : observations[i].severity # "info"

\* C29: a response of multi-rule mode carries at most one error, and with an
\* error it carries no observation; a response with both errors and
\* observations comes from single-rule mode.
C29_MultiErrorsExcludeObservations ==
    Done =>
        /\ Multi => /\ Len(response.errors) <= 1
                    /\ response.errors # <<>> => response.observations = <<>>
        /\ (response.errors # <<>> /\ response.observations # <<>>) => Single

\* a multi-rule review whose reply is a JSON object without an
\* "observations" key returns the one parse-failure error and no observation
C29_Witness ==
    /\ Multi /\ Done /\ Succeeded = {1}
    /\ invocations[1].raw = <<Json(TObjNoKey)>>
    /\ Len(response.errors) = 1
    /\ response.errors[1].code = "MODEL_PARSE_FAILURE"
    /\ response.observations = <<>>

\* the errors of the failed rules of 1..n, in rule order
RECURSIVE ErrorsUpTo(_)
ErrorsUpTo(n) ==
    IF n = 0 THEN <<>>
    ELSE ErrorsUpTo(n - 1) \o (IF invocations[n].status = "failed"
                               THEN <<invocations[n].error>> ELSE <<>>)

\* C30: single-rule sequential and single-rule parallel execution give, for
\* the same retrieved rules and the same per-rule outcomes, the same merged
\* pre-policy list (rule order), the same summed usage, the same error list
\* (rule order) and so the same response: in either mode every rule has its
\* outcome when the response is built, the response is the one function of
\* rules and outcomes written below, and a run ends without a response in
\* either mode exactly when the outcome of a rule it reached is a raise.
C30_SequentialEqualsParallel ==
    /\ (Single /\ Done) =>
          /\ Len(invocations) = Len(rules)
          /\ \A i \in 1..Len(rules) :
                /\ invocations[i].known_refs = {rules[i]}
                /\ invocations[i].status \in {"returned", "failed"}
          /\ observations = ObservationsUpTo(Len(rules))
          /\ response.meta.usage = Usage(SumInput(1..Len(rules)), SumOutput(1..Len(rules)))
          /\ response.errors = ErrorsUpTo(Len(rules))
          /\ response.observations =
                strip_fields(apply_policy(ObservationsUpTo(Len(rules)), request.strictness,
                                          request.options.min_confidence,
                                          request.options.max_observations, policy_config),
                             request.options)
          /\ response.meta.strictness = request.strictness
    /\ (Single /\ pc = "raised") =>
          \E i \in 1..Len(invocations) : invocations[i].status = "raised"

\* a sequential review of two rules: the first call failed, the second
\* returned an observation, and the response carries the error and the
\* observation
C30_Witness ==
    /\ Sequential /\ Done /\ Len(rules) = 2
    /\ invocations[1].status = "failed" /\ invocations[2].status = "returned"
    /\ invocations[2].usage = Usage(MaxTokens, 1)
    /\ response.meta.usage = Usage(MaxTokens, 1)
    /\ Len(response.errors) = 1 /\ response.errors[1].ref = rules[1]
    /\ response.observations # <<>>

====
